---------------------------- MODULE Spec2Model ----------------------------
(***************************************************************************)
(* Model of nanobot/agent/tools/supabase_leads.py: the two tools           *)
(* leads_report (SupabaseLeadsReportTool.execute) and lead_lookup          *)
(* (LeadLookupTool.execute), and the helper _parse_dt.                     *)
(*                                                                         *)
(* Strings are sequences of one-character strings.  A JSON field of a lead *)
(* or note record is a record [k, v]: k is "missing" (key absent), "null", *)
(* "str" (v its characters) or "num" (a non-zero number, v its digits).    *)
(* A timestamp field is a record [k, wall, off]: k is "missing", "null",   *)
(* "empty" (""), "bad" (a string that is not ISO-8601), "num", or "iso";   *)
(* for "iso", wall is the wall-clock reading in ticks and off the written  *)
(* offset: "Z", "+0", "+1" (one tick east of UTC) or "naive" (none).       *)
(***************************************************************************)
EXTENDS Integers, Sequences, FiniteSets, TLC

(***************************************************************************)
(* Bounds of the model.                                                    *)
(***************************************************************************)
TicksPerDay == 2        \* clock resolution: ticks in one day
NowTick == 100          \* datetime.now(timezone.utc), in ticks
MaxFetchLeads == 2      \* longest snapshot where the fetches' outcomes vary
MaxNotes == 2           \* longest lead_notes body
MaxDataLeads == 1       \* longest snapshot where one field's type varies
MaxNewLeads == 2        \* longest snapshot where created_at varies
MaxRuleLeads == 1       \* longest snapshot where the stale and hot inputs vary
MaxProjLeads == 3       \* longest snapshot where project varies
MaxLookupLeads == 2     \* longest snapshot where names and phones vary
BulkLen == 13           \* stale leads in the fixed bulk of the long snapshots
MaxTail == 3            \* free leads after the bulk

(***************************************************************************)
(* Program constants.                                                      *)
(***************************************************************************)
DefaultDaysNew == 10
DefaultDaysStale == 7
StaleShown == 15
NoteSnippetLen == 80
LookupNoteLen == 120
LookupNotesShown == 5
ReportNotesLimit == 100
LookupNotesLimit == 200
HttpOk == 200

(***************************************************************************)
(* Python string operations.                                               *)
(***************************************************************************)
UpperCase == <<"A","B","C","D","E","F","G","H","I","J","K","L","M",
               "N","O","P","Q","R","S","T","U","V","W","X","Y","Z">>
LowerCase == <<"a","b","c","d","e","f","g","h","i","j","k","l","m",
               "n","o","p","q","r","s","t","u","v","w","x","y","z">>
Digits == <<"0","1","2","3","4","5","6","7","8","9">>

LowerChar(c) ==
    IF \E n \in 1..Len(UpperCase) : UpperCase[n] = c
    THEN LowerCase[CHOOSE n \in 1..Len(UpperCase) : UpperCase[n] = c]
    ELSE c

\* str.lower()
Lower(s) == [n \in 1..Len(s) |-> LowerChar(s[n])]

\* s[:n]
Take(s, n) == SubSeq(s, 1, IF Len(s) < n THEN Len(s) ELSE n)

StartsWith(s, p) == Len(p) <= Len(s) /\ SubSeq(s, 1, Len(p)) = p

\* sub in s
Contains(sub, s) ==
    \E n \in 0..(Len(s) - Len(sub)) : SubSeq(s, n + 1, n + Len(sub)) = sub

RECURSIVE LStrip(_)
LStrip(s) == IF s # <<>> /\ Head(s) = " " THEN LStrip(Tail(s)) ELSE s

RECURSIVE RStrip(_)
RStrip(s) ==
    IF s # <<>> /\ s[Len(s)] = " " THEN RStrip(SubSeq(s, 1, Len(s) - 1)) ELSE s

\* str.strip()
Strip(s) == RStrip(LStrip(s))

\* str.replace(old, ""): one pass, left to right, non-overlapping
RECURSIVE Remove(_, _)
Remove(s, old) ==
    IF s = <<>> THEN <<>>
    ELSE IF StartsWith(s, old) THEN Remove(SubSeq(s, Len(old) + 1, Len(s)), old)
    ELSE <<Head(s)>> \o Remove(Tail(s), old)

\* str.isdigit()
IsDigit(s) ==
    s # <<>> /\ \A n \in 1..Len(s) : \E d \in 1..Len(Digits) : Digits[d] = s[n]

DigitVal(c) == (CHOOSE d \in 1..Len(Digits) : Digits[d] = c) - 1

\* int(s) of a string that is digits once stripped
RECURSIVE IntOfDigits(_)
IntOfDigits(s) ==
    IF s = <<>> THEN 0
    ELSE 10 * IntOfDigits(SubSeq(s, 1, Len(s) - 1)) + DigitVal(s[Len(s)])

IntOf(s) == IntOfDigits(Strip(s))

(***************************************************************************)
(* JSON values and the Python idioms applied to them.                      *)
(***************************************************************************)
Missing == [k |-> "missing", v |-> <<>>]
Null == [k |-> "null", v |-> <<>>]
Str(s) == [k |-> "str", v |-> s]
Num(s) == [k |-> "num", v |-> s]

\* bool(x)
Truthy(x) == (x.k = "str" /\ x.v # <<>>) \/ x.k = "num"

\* dict.get(key, default)
Get(x, default) == IF x.k = "missing" THEN default ELSE x

\* (x or "")
OrEmpty(x) == IF Truthy(x) THEN x ELSE Str(<<>>)

NA == <<"N", "/", "A">>
Unknown == <<"U", "n", "k", "n", "o", "w", "n">>
LostJunk == <<"L", "o", "s", "t", "/", "J", "u", "n", "k">>
KwSiteVisit == <<"s", "i", "t", "e", " ", "v", "i", "s", "i", "t">>
KwSite_Visit == <<"s", "i", "t", "e", "_", "v", "i", "s", "i", "t">>
KwHot == <<"h", "o", "t">>
Plus91 == <<"+", "9", "1">>

TsMissing == [k |-> "missing", wall |-> 0, off |-> "naive"]
TsNull == [k |-> "null", wall |-> 0, off |-> "naive"]
TsEmpty == [k |-> "empty", wall |-> 0, off |-> "naive"]
TsBad == [k |-> "bad", wall |-> 0, off |-> "naive"]
TsNum == [k |-> "num", wall |-> 0, off |-> "naive"]
Iso(w, o) == [k |-> "iso", wall |-> w, off |-> o]

TsTruthy(x) == x.k \in {"bad", "num", "iso"}

\* ticks east of UTC that a written offset stands for
OffsetTicks(o) == IF o = "+1" THEN 1 ELSE 0

\* val.replace("Z", "+00:00")
ReplaceZ(o) == IF o = "Z" THEN "+0" ELSE o

NoDt == [some |-> FALSE, aware |-> FALSE, t |-> 0, wall |-> 0]

\* _parse_dt: None, or a datetime with its instant t (for an aware one) and
\* its own wall-clock reading
_parse_dt(val) ==
    IF ~TsTruthy(val) THEN NoDt
    ELSE IF val.k # "iso" THEN NoDt
    ELSE [some |-> TRUE,
          aware |-> ReplaceZ(val.off) # "naive",
          t |-> val.wall - OffsetTicks(ReplaceZ(val.off)),
          wall |-> val.wall]

\* timedelta.days of (a - b), both in ticks
DaysBetween(a, b) == (a - b) \div TicksPerDay

\* strftime('%b %d, %Y'): the calendar day of the datetime's own wall clock
FormatDate(dt) == dt.wall \div TicksPerDay


(***************************************************************************)
(* State.                                                                  *)
(***************************************************************************)
VARIABLES
    tool,               \* the tool invoked: "leads_report" or "lead_lookup"
    kwargs,             \* the invocation's arguments
    environ,            \* os.environ
    backend,            \* what the two GETs will be answered with
    pc,                 \* position in execute()
    creds,              \* supabase_url, supabase_key once resolved
    days,               \* days_new, days_stale once converted
    query,              \* query once stripped
    requests,           \* the GETs issued so far
    leads,              \* r.json()
    lead_notes,         \* the notes map
    idx,                \* index of the lead the report loop is at
    by_project,         \* dict project -> count, in insertion order
    new_leads, stale_leads, site_visit_leads, hot_leads,
    matches,            \* lookup: indices of the matching leads
    result              \* what execute() returned, or the exception it raised

vars == <<tool, kwargs, environ, backend, pc, creds, days, query, requests,
          leads, lead_notes, idx, by_project, new_leads, stale_leads,
          site_visit_leads, hot_leads, matches, result>>

Result(kind, body) == [kind |-> kind, body |-> body]
NoResult == Result("none", <<>>)
\* "Error: SUPABASE_URL and SUPABASE_KEY environment variables are not set."
MissingCredentials == Result("missing_credentials", <<>>)
\* f"Error fetching leads: {e}"
FetchError(e) == Result("fetch_error", <<e>>)
\* "No leads found in the database."
NoLeads == Result("no_leads", <<>>)
\* f"No leads found matching '{query}'."
NoMatch(q) == Result("no_match", <<q>>)
\* an exception left execute()
Raised(e) == Result("exception", <<e>>)

\* str.rstrip('/')
RECURSIVE RStripSlash(_)
RStripSlash(s) ==
    IF s # <<>> /\ s[Len(s)] = "/"
    THEN RStripSlash(SubSeq(s, 1, Len(s) - 1)) ELSE s

Request(url, table, limit, key) ==
    [base |-> RStripSlash(url.v), table |-> table, limit |-> limit,
     apikey |-> key.v]

\* a or b
FirstTruthy(a, b) == IF Truthy(a) THEN a ELSE b

\* days_new / days_stale: a str is converted when it is digits once stripped,
\* and replaced by the fallback otherwise; an int is kept
DefaultDaysNewStr == <<"1", "0">>
DefaultDaysStaleStr == <<"7">>
ArgDefault == [k |-> "default", s |-> <<>>, n |-> 0]
ArgStr(s) == [k |-> "str", s |-> s, n |-> 0]
ArgInt(n) == [k |-> "int", s |-> <<>>, n |-> n]

ConvertDays(arg, default, fallback) ==
    LET a == IF arg.k = "default" THEN ArgStr(default) ELSE arg
    IN  IF a.k = "str"
        THEN IF IsDigit(Strip(a.s)) THEN IntOf(a.s) ELSE fallback
        ELSE a.n

(***************************************************************************)
(* Credentials (lines 45-49 and 236-240).                                  *)
(***************************************************************************)
ReportCredentials ==
    [url |-> FirstTruthy(kwargs.supabase_url, Get(environ.SUPABASE_URL, Str(<<>>))),
     key |-> FirstTruthy(kwargs.supabase_key, Get(environ.SUPABASE_KEY, Str(<<>>)))]

LookupCredentials ==
    [url |-> Get(environ.SUPABASE_URL, Str(<<>>)),
     key |-> Get(environ.SUPABASE_KEY, Str(<<>>))]

ReportStart ==
    /\ pc = "start"
    /\ tool = "leads_report"
    /\ LET c == ReportCredentials
       IN  IF ~Truthy(c.url) \/ ~Truthy(c.key)
           THEN /\ result' = MissingCredentials
                /\ pc' = "done"
                /\ UNCHANGED <<creds, days>>
           ELSE /\ creds' = c
                /\ days' = [new |-> ConvertDays(kwargs.days_new, DefaultDaysNewStr,
                                                DefaultDaysNew),
                            stale |-> ConvertDays(kwargs.days_stale, DefaultDaysStaleStr,
                                                  DefaultDaysStale)]
                /\ pc' = "get_leads"
                /\ UNCHANGED result
    /\ UNCHANGED <<tool, kwargs, environ, backend, query, requests, leads,
                   lead_notes, idx, by_project, new_leads, stale_leads,
                   site_visit_leads, hot_leads, matches>>

LookupStart ==
    /\ pc = "start"
    /\ tool = "lead_lookup"
    /\ LET c == LookupCredentials
       IN  IF ~Truthy(c.url) \/ ~Truthy(c.key)
           THEN /\ result' = MissingCredentials
                /\ pc' = "done"
                /\ UNCHANGED <<creds, query>>
           ELSE /\ creds' = c
                /\ query' = Strip(kwargs.query)
                /\ pc' = "get_leads"
                /\ UNCHANGED result
    /\ UNCHANGED <<tool, kwargs, environ, backend, days, requests, leads,
                   lead_notes, idx, by_project, new_leads, stale_leads,
                   site_visit_leads, hot_leads, matches>>

(***************************************************************************)
(* The leads GET (lines 65-69, 82-83 and 250-254, 268-269): one request;   *)
(* a transport exception, raise_for_status() on a non-2xx status and       *)
(* r.json() on an unparseable body all end in the except clause.           *)
(***************************************************************************)
LeadsFailure(resp) ==
    CASE resp.k = "exc" -> <<TRUE, "ConnectError">>
      [] resp.k = "timeout" -> <<TRUE, "ReadTimeout">>
      [] resp.k = "status" -> <<TRUE, "HTTPStatusError">>
      [] resp.k = "badjson" -> <<TRUE, "JSONDecodeError">>
      [] OTHER -> <<FALSE, "">>

\* as GetLeads, but asking once more after a failed GET
GetLeadsRetry(t) ==
    /\ pc = "get_leads"
    /\ tool = t
    /\ requests' = requests \o
            (IF LeadsFailure(backend.leads)[1]
             THEN <<Request(creds.url, "leads", 0, creds.key),
                    Request(creds.url, "leads", 0, creds.key)>>
             ELSE <<Request(creds.url, "leads", 0, creds.key)>>)
    /\ IF LeadsFailure(backend.leads)[1]
       THEN /\ result' = FetchError(LeadsFailure(backend.leads)[2])
            /\ pc' = "done"
            /\ UNCHANGED leads
       ELSE /\ leads' = backend.leads.body
            /\ pc' = "get_notes"
            /\ UNCHANGED result
    /\ UNCHANGED <<tool, kwargs, environ, backend, creds, days, query,
                   lead_notes, idx, by_project, new_leads, stale_leads,
                   site_visit_leads, hot_leads, matches>>

GetLeads(t) ==
    /\ pc = "get_leads"
    /\ tool = t
    /\ requests' = Append(requests, Request(creds.url, "leads", 0, creds.key))
    /\ IF LeadsFailure(backend.leads)[1]
       THEN /\ result' = FetchError(LeadsFailure(backend.leads)[2])
            /\ pc' = "done"
            /\ UNCHANGED leads
       ELSE /\ leads' = backend.leads.body
            /\ pc' = "get_notes"
            /\ UNCHANGED result
    /\ UNCHANGED <<tool, kwargs, environ, backend, creds, days, query,
                   lead_notes, idx, by_project, new_leads, stale_leads,
                   site_visit_leads, hot_leads, matches>>

ReportGetLeads == GetLeads("leads_report")
LookupGetLeads == GetLeads("lead_lookup")

(***************************************************************************)
(* The notes GET (lines 71-81 and 256-267).  Whatever is raised inside the *)
(* inner try is swallowed, and the map keeps what the loop had stored.     *)
(***************************************************************************)
EmptyMap == <<>>

\* rn.json() yields something to iterate over
NotesIterable(resp) == resp.k = "ok" /\ resp.code = HttpOk

\* report: first note per lead_id (lines 76-79); a record that is no object
\* raises at note.get and ends the loop
RECURSIVE ReportNotesFold(_, _)
ReportNotesFold(items, m) ==
    IF items = <<>> THEN m
    ELSE LET note == Head(items)
             lid == Get(note.lead_id, Null)
         IN  IF note.k # "note" THEN m
             ELSE IF Truthy(lid) /\ lid \notin DOMAIN m
             THEN ReportNotesFold(Tail(items),
                                  m @@ (lid :> Get(note.content, Str(<<>>))))
             ELSE ReportNotesFold(Tail(items), m)

ReportNotesMap(resp) ==
    IF NotesIterable(resp) THEN ReportNotesFold(resp.body, EmptyMap) ELSE EmptyMap

\* lookup: every note per lead_id, in order (lines 262-265)
RECURSIVE LookupNotesFold(_, _)
LookupNotesFold(items, m) ==
    IF items = <<>> THEN m
    ELSE LET note == Head(items)
             lid == Get(note.lead_id, Null)
             c == Get(note.content, Str(<<>>))
         IN  IF note.k # "note" THEN m
             ELSE IF Truthy(lid)
             THEN LookupNotesFold(Tail(items),
                     IF lid \in DOMAIN m
                     THEN [m EXCEPT ![lid] = Append(@, c)]
                     ELSE m @@ (lid :> <<c>>))
             ELSE LookupNotesFold(Tail(items), m)

LookupNotesMap(resp) ==
    IF NotesIterable(resp) THEN LookupNotesFold(resp.body, EmptyMap) ELSE EmptyMap

ReportGetNotes ==
    /\ pc = "get_notes"
    /\ tool = "leads_report"
    /\ requests' = Append(requests,
            Request(creds.url, "lead_notes", ReportNotesLimit, creds.key))
    /\ lead_notes' = ReportNotesMap(backend.notes)
    /\ IF leads = <<>>
       THEN /\ result' = NoLeads
            /\ pc' = "done"
            /\ UNCHANGED idx
       ELSE /\ idx' = 1
            /\ pc' = "classify"
            /\ UNCHANGED result
    /\ UNCHANGED <<tool, kwargs, environ, backend, creds, days, query, leads,
                   by_project, new_leads, stale_leads, site_visit_leads,
                   hot_leads, matches>>

LookupGetNotes ==
    /\ pc = "get_notes"
    /\ tool = "lead_lookup"
    /\ requests' = Append(requests,
            Request(creds.url, "lead_notes", LookupNotesLimit, creds.key))
    /\ lead_notes' = LookupNotesMap(backend.notes)
    /\ pc' = "search"
    /\ UNCHANGED <<tool, kwargs, environ, backend, creds, days, query, leads,
                   idx, by_project, new_leads, stale_leads, site_visit_leads,
                   hot_leads, matches, result>>

(***************************************************************************)
(* leads_report: the loop over the leads (lines 100-157).                  *)
(***************************************************************************)
Now == NowTick

\* now - timedelta(days=d), in ticks
Cutoff(d) == Now - d * TicksPerDay

\* status = (lead.get("status") or "").strip()
StatusOf(lead) == Strip(OrEmpty(Get(lead.status, Null)).v)
NotesOf(lead) == Strip(OrEmpty(Get(lead.notes, Null)).v)

\* lead_notes.get(lead.get("id", ""), default)
NotesFor(lead, m, default) ==
    LET lead_id == Get(lead.id, Str(<<>>))
    IN  IF lead_id \in DOMAIN m THEN m[lead_id] ELSE default

\* the report shows the map's note when it is there and differs from the
\* lead's own notes (line 130)
ShowsLatest(lead, m) ==
    LET recent_note == NotesFor(lead, m, Str(<<>>))
    IN  Truthy(recent_note) /\ recent_note # Str(NotesOf(lead))

\* the exception a lead makes the loop body raise ("" when it raises none),
\* statement by statement
ClassifyError(lead, m) ==
    LET created_at == _parse_dt(lead.created_at)
        updated_at == _parse_dt(lead.updated_at)
        priority == Get(lead.priority, Str(NA))
    IN  CASE OrEmpty(Get(lead.status, Null)).k = "num" -> "AttributeError"
          [] OrEmpty(Get(lead.notes, Null)).k = "num" -> "AttributeError"
          [] ShowsLatest(lead, m) /\ NotesFor(lead, m, Str(<<>>)).k = "num"
                -> "TypeError"
          [] created_at.some /\ ~created_at.aware -> "TypeError"
          [] updated_at.some /\ ~updated_at.aware -> "TypeError"
          [] Truthy(priority) /\ priority.k = "num" -> "AttributeError"
          [] OTHER -> ""

\* the lead's line (lines 122-135); an optional part is <<>> when left out
LeadLine(lead, m) ==
    LET source == Get(lead.lead_source, Str(NA))
        fu_dt == _parse_dt(lead.next_follow_up)
    IN  [name |-> Get(lead.lead_name, Str(Unknown)),
         phone |-> Get(lead.mobile_number, Str(NA)),
         project |-> Get(lead.project, Str(NA)),
         source |-> IF Truthy(source) THEN <<source>> ELSE <<>>,
         status |-> IF StatusOf(lead) # <<>> THEN <<StatusOf(lead)>> ELSE <<>>,
         note |-> IF NotesOf(lead) # <<>>
                  THEN <<Take(NotesOf(lead), NoteSnippetLen)>> ELSE <<>>,
         latest |-> IF ShowsLatest(lead, m)
                    THEN <<Take(NotesFor(lead, m, Str(<<>>)).v, NoteSnippetLen)>>
                    ELSE <<>>,
         follow_up |-> IF TsTruthy(lead.next_follow_up) /\ fu_dt.some
                       THEN <<FormatDate(fu_dt)>> ELSE <<>>]

\* as IsNew, with the cutoff itself left out
IsNewStrict(lead, d) ==
    LET created_at == _parse_dt(lead.created_at)
    IN  created_at.some /\ created_at.t > Cutoff(d.new)

\* the four predicates (lines 138, 143, 148, 156)
IsNew(lead, d) ==
    LET created_at == _parse_dt(lead.created_at)
    IN  created_at.some /\ created_at.t >= Cutoff(d.new)

\* as IsStale, without the lead_bucket test
IsStaleAnyBucket(lead, d) ==
    LET updated_at == _parse_dt(lead.updated_at)
    IN  updated_at.some /\ updated_at.t < Cutoff(d.stale)

IsStale(lead, d) ==
    LET updated_at == _parse_dt(lead.updated_at)
        bucket == Get(lead.lead_bucket, Str(NA))
    IN  /\ updated_at.some
        /\ updated_at.t < Cutoff(d.stale)
        /\ bucket # Str(LostJunk)

IsSiteVisit(lead) ==
    \/ Contains(KwSiteVisit, Lower(StatusOf(lead)))
    \/ Contains(KwSite_Visit, Lower(StatusOf(lead)))

IsHot(lead) ==
    LET priority == Get(lead.priority, Str(NA))
    IN  /\ Truthy(priority)
        /\ Lower(priority.v) = KwHot
        /\ ~Contains(KwSiteVisit, Lower(StatusOf(lead)))

\* sv_info (lines 149-152)
SiteVisitInfo(lead) ==
    LET sv_dt == _parse_dt(lead.site_visit_date)
    IN  IF ~TsTruthy(lead.site_visit_date) THEN <<>>
        ELSE IF sv_dt.some THEN <<"date", FormatDate(sv_dt)>>
        ELSE <<"raw", lead.site_visit_date>>

\* as CountProject, counting only the first lead of a project
CountProjectFirstOnly(bp, project) ==
    IF \E n \in 1..Len(bp) : bp[n].p = project
    THEN bp
    ELSE Append(bp, [p |-> project, c |-> 1])

\* by_project[project] = by_project.get(project, 0) + 1
CountProject(bp, project) ==
    IF \E n \in 1..Len(bp) : bp[n].p = project
    THEN [n \in 1..Len(bp) |->
            IF bp[n].p = project THEN [bp[n] EXCEPT !.c = @ + 1] ELSE bp[n]]
    ELSE Append(bp, [p |-> project, c |-> 1])

ClassifyLead ==
    /\ pc = "classify"
    /\ idx <= Len(leads)
    /\ LET lead == leads[idx]
           line == LeadLine(lead, lead_notes)
           created_at == _parse_dt(lead.created_at)
           updated_at == _parse_dt(lead.updated_at)
       IN  IF ClassifyError(lead, lead_notes) # ""
           THEN /\ result' = Raised(ClassifyError(lead, lead_notes))
                /\ pc' = "raised"
                /\ UNCHANGED <<idx, by_project, new_leads, stale_leads,
                               site_visit_leads, hot_leads>>
           ELSE /\ by_project' = CountProject(by_project, Get(lead.project, Str(NA)))
                /\ new_leads' =
                     IF IsNew(lead, days)
                     THEN Append(new_leads,
                                 [days_ago |-> DaysBetween(Now, created_at.t),
                                  lead |-> idx, line |-> line])
                     ELSE new_leads
                /\ stale_leads' =
                     IF IsStale(lead, days)
                     THEN Append(stale_leads,
                                 [days_ago |-> DaysBetween(Now, updated_at.t),
                                  lead |-> idx, line |-> line])
                     ELSE stale_leads
                /\ site_visit_leads' =
                     IF IsSiteVisit(lead)
                     THEN Append(site_visit_leads,
                                 [info |-> SiteVisitInfo(lead),
                                  lead |-> idx, line |-> line])
                     ELSE site_visit_leads
                /\ hot_leads' =
                     IF IsHot(lead)
                     THEN Append(hot_leads, [lead |-> idx, line |-> line])
                     ELSE hot_leads
                /\ idx' = idx + 1
                /\ UNCHANGED <<pc, result>>
    /\ UNCHANGED <<tool, kwargs, environ, backend, creds, days, query, requests,
                   leads, lead_notes, matches>>

(***************************************************************************)
(* leads_report: sorting and the report (lines 159-211).                   *)
(***************************************************************************)
\* list.sort(key=...) on <<key, item>> pairs: ascending by key, stable
RECURSIVE InsertByKey(_, _)
InsertByKey(e, s) ==
    IF s = <<>> THEN <<e>>
    ELSE IF e[1] < s[Len(s)][1]
    THEN Append(InsertByKey(e, SubSeq(s, 1, Len(s) - 1)), s[Len(s)])
    ELSE Append(s, e)

RECURSIVE SortPairs(_)
SortPairs(s) ==
    IF s = <<>> THEN <<>>
    ELSE InsertByKey(s[Len(s)], SortPairs(SubSeq(s, 1, Len(s) - 1)))

Items(pairs) == [n \in 1..Len(pairs) |-> pairs[n][2]]

\* new_leads.sort(key=lambda x: x[0])
SortNew(s) == Items(SortPairs([n \in 1..Len(s) |-> <<s[n].days_ago, s[n]>>]))
\* stale_leads.sort(key=lambda x: -x[0])
SortStale(s) == Items(SortPairs([n \in 1..Len(s) |-> <<-s[n].days_ago, s[n]>>]))
\* sorted(by_project.items(), key=lambda x: -x[1])
SortProjects(bp) == Items(SortPairs([n \in 1..Len(bp) |-> <<-bp[n].c, bp[n]>>]))

Entries(sec, s) ==
    [n \in 1..Len(s) |-> [t |-> "lead", sec |-> sec, entry |-> s[n]]]

Section(sec, d, s) ==
    <<[t |-> "header", sec |-> sec, days |-> d, n |-> Len(s)]>>
    \o (IF s # <<>> THEN Entries(sec, s) ELSE <<[t |-> "empty", sec |-> sec]>>)

\* as StaleBody, printing every entry
StaleBodyNoLimit(s) == Entries("stale", s)

\* the stale section's body (lines 203-209)
StaleBody(s) ==
    Entries("stale", Take(s, StaleShown))
    \o (IF Len(s) > StaleShown
        THEN <<[t |-> "more", n |-> Len(s) - StaleShown]>> ELSE <<>>)

BuildReport ==
    LET new_sorted == SortNew(new_leads)
        stale_sorted == SortStale(stale_leads)
        blank == <<[t |-> "blank"]>>
    IN  <<[t |-> "title", day |-> Now \div TicksPerDay],
          [t |-> "rule"],
          [t |-> "total", n |-> Len(leads)],
          [t |-> "by_project", parts |-> SortProjects(by_project)]>>
        \o blank
        \o Section("new", days.new, new_sorted) \o blank
        \o Section("site_visit", 0, site_visit_leads) \o blank
        \o Section("hot", 0, hot_leads) \o blank
        \o <<[t |-> "header", sec |-> "stale", days |-> days.stale,
              n |-> Len(stale_leads)]>>
        \o (IF stale_sorted # <<>> THEN StaleBody(stale_sorted)
            ELSE <<[t |-> "empty", sec |-> "stale"]>>)

RenderReport ==
    /\ pc = "classify"
    /\ idx > Len(leads)
    /\ new_leads' = SortNew(new_leads)
    /\ stale_leads' = SortStale(stale_leads)
    /\ result' = Result("report", BuildReport)
    /\ pc' = "done"
    /\ UNCHANGED <<tool, kwargs, environ, backend, creds, days, query, requests,
                   leads, lead_notes, idx, by_project, site_visit_leads,
                   hot_leads, matches>>

(***************************************************************************)
(* lead_lookup: the search (lines 271-281) and the blocks (lines 283-320). *)
(***************************************************************************)
\* .replace("+91", "").replace(" ", "").replace("-", "")
StripPhoneChars(s) == Remove(Remove(Remove(s, Plus91), <<" ">>), <<"-">>)

\* q_lower (line 272)
QueryKey(q) == StripPhoneChars(Lower(q))
\* name (line 275)
NameKey(lead) == Lower(OrEmpty(Get(lead.lead_name, Null)).v)
\* phone (line 276)
PhoneKey(lead) == StripPhoneChars(OrEmpty(Get(lead.mobile_number, Null)).v)

\* a number has neither lower() nor replace()
SearchError(lead) ==
    CASE OrEmpty(Get(lead.lead_name, Null)).k = "num" -> "AttributeError"
      [] OrEmpty(Get(lead.mobile_number, Null)).k = "num" -> "AttributeError"
      [] OTHER -> ""

IsMatch(q, lead) ==
    \/ Contains(QueryKey(q), NameKey(lead))
    \/ Contains(QueryKey(q), PhoneKey(lead))

RECURSIVE Filter(_, _, _)
Filter(q, ls, n) ==
    IF n > Len(ls) THEN <<>>
    ELSE (IF IsMatch(q, ls[n]) THEN <<n>> ELSE <<>>) \o Filter(q, ls, n + 1)

LookupSearch ==
    /\ pc = "search"
    /\ IF \E n \in 1..Len(leads) : SearchError(leads[n]) # ""
       THEN /\ result' = Raised("AttributeError")
            /\ pc' = "raised"
            /\ UNCHANGED matches
       ELSE /\ matches' = Filter(query, leads, 1)
            /\ IF Filter(query, leads, 1) = <<>>
               THEN /\ result' = NoMatch(query)
                    /\ pc' = "done"
               ELSE /\ pc' = "detail"
                    /\ UNCHANGED result
    /\ UNCHANGED <<tool, kwargs, environ, backend, creds, days, query, requests,
                   leads, lead_notes, idx, by_project, new_leads, stale_leads,
                   site_visit_leads, hot_leads>>

\* a naive datetime cannot be subtracted from now; a note that is no string
\* cannot be sliced
BlockError(lead, m) ==
    LET created == _parse_dt(lead.created_at)
        updated == _parse_dt(lead.updated_at)
        notes == Take(NotesFor(lead, m, <<>>), LookupNotesShown)
    IN  CASE created.some /\ ~created.aware -> "TypeError"
          [] updated.some /\ ~updated.aware -> "TypeError"
          [] \E n \in 1..Len(notes) : notes[n].k # "str" -> "TypeError"
          [] OTHER -> ""

\* date and age of a timestamp, or <<>> for 'N/A' ('unknown')
DateAndAge(dt) ==
    IF dt.some THEN <<FormatDate(dt), DaysBetween(Now, dt.t)>> ELSE <<>>

\* a date field shown when it is set: formatted, or as it came
DateOrRaw(val) ==
    IF ~TsTruthy(val) THEN <<>>
    ELSE IF _parse_dt(val).some THEN <<"date", FormatDate(_parse_dt(val))>>
    ELSE <<"raw", val>>

RecentNotes(lead, m) ==
    LET notes == NotesFor(lead, m, <<>>)
        shown == Take(notes, LookupNotesShown)
    IN  IF notes = <<>> THEN <<>>
        ELSE <<[count |-> Len(notes),
                shown |-> [n \in 1..Len(shown) |-> Take(shown[n].v, LookupNoteLen)]]>>

Block(n, lead, m) ==
    [lead |-> n,
     name |-> Get(lead.lead_name, Str(Unknown)),
     phone |-> Get(lead.mobile_number, Str(NA)),
     project |-> Get(lead.project, Str(NA)),
     status |-> Get(lead.status, Str(NA)),
     priority |-> Get(lead.priority, Str(NA)),
     bucket |-> Get(lead.lead_bucket, Str(NA)),
     source |-> Get(lead.lead_source, Str(NA)),
     created |-> DateAndAge(_parse_dt(lead.created_at)),
     updated |-> DateAndAge(_parse_dt(lead.updated_at)),
     site_visit |-> DateOrRaw(lead.site_visit_date),
     follow_up |-> DateOrRaw(lead.next_follow_up),
     notes |-> IF Truthy(lead.notes) THEN <<lead.notes>> ELSE <<>>,
     recent |-> RecentNotes(lead, m)]

LookupRender ==
    /\ pc = "detail"
    /\ IF \E n \in 1..Len(matches) : BlockError(leads[matches[n]], lead_notes) # ""
       THEN /\ result' = Raised("TypeError")
            /\ pc' = "raised"
       ELSE /\ result' = Result("lookup",
                    <<[t |-> "found", n |-> Len(matches), query |-> query]>>
                    \o [n \in 1..Len(matches) |->
                          Block(matches[n], leads[matches[n]], lead_notes)])
            /\ pc' = "done"
    /\ UNCHANGED <<tool, kwargs, environ, backend, creds, days, query, requests,
                   leads, lead_notes, idx, by_project, new_leads, stale_leads,
                   site_visit_leads, hot_leads, matches>>

(***************************************************************************)
(* Inputs.  The initial states are the union of families of invocations,   *)
(* each varying some of the inputs exhaustively around a plain lead.       *)
(***************************************************************************)
SeqsUpTo(S, n) == UNION {[1..m -> S] : m \in 0..n}

Tools == {"leads_report", "lead_lookup"}

GoodEnv == [SUPABASE_URL |-> Str(<<"u", "/">>), SUPABASE_KEY |-> Str(<<"k">>)]
NoArgs == [supabase_url |-> Missing, supabase_key |-> Missing,
           days_new |-> ArgDefault, days_stale |-> ArgDefault,
           query |-> <<"a", "n">>]

Ok(body) == [k |-> "ok", code |-> HttpOk, body |-> body]
Failed(kind, code) == [k |-> kind, code |-> code, body |-> <<>>]

LongAgo == Cutoff(DefaultDaysNew + DefaultDaysStale) - 1

\* a lead that is in no section
BaseLead ==
    [id |-> Num(<<"1">>),
     lead_name |-> Str(<<"A", "n", "u">>),
     mobile_number |-> Str(<<"9", "8", "7">>),
     project |-> Str(<<"P">>),
     status |-> Str(<<"N", "e", "w">>),
     priority |-> Str(<<"W", "a", "r", "m">>),
     lead_bucket |-> Str(<<"W", "a", "r", "m">>),
     lead_source |-> Str(<<"W", "e", "b">>),
     notes |-> Null,
     created_at |-> Iso(LongAgo, "Z"),
     updated_at |-> Iso(Now, "Z"),
     site_visit_date |-> TsNull,
     next_follow_up |-> TsNull]

TextFields == {"id", "lead_name", "mobile_number", "project", "status",
               "priority", "lead_bucket", "lead_source", "notes"}
TsFields == {"created_at", "updated_at", "site_visit_date", "next_follow_up"}

With(lead, f, val) == [lead EXCEPT ![f] = val]

\* credentials: each given as a parameter and in the environment, or not
ParamValues == {Missing, Str(<<>>), Str(<<"p">>)}
EnvValues == {Missing, Str(<<>>), Str(<<"e">>)}

InitCredentials ==
    /\ tool \in Tools
    /\ \E pu \in ParamValues, pk \in ParamValues :
         kwargs = [NoArgs EXCEPT !.supabase_url = pu, !.supabase_key = pk]
    /\ \E eu \in EnvValues, ek \in EnvValues :
         environ = [SUPABASE_URL |-> eu, SUPABASE_KEY |-> ek]
    /\ backend = [leads |-> Ok(<<BaseLead>>), notes |-> Ok(<<>>)]

\* the two GETs: every outcome of each
Note(lid, content) == [k |-> "note", lead_id |-> lid, content |-> content]
Junk == [k |-> "junk", lead_id |-> Missing, content |-> Missing]

\* a hot lead with notes of its own
NotedLead ==
    [BaseLead EXCEPT !.id = Num(<<"2">>), !.notes = Str(<<"o", "k">>),
                     !.lead_name = Str(<<"J", "a", "n">>),
                     !.priority = Str(<<"H", "o", "t">>)]

NoteItems ==
    {Note(Num(<<"1">>), Str(<<"h", "i">>)),
     Note(Num(<<"2">>), Str(<<"o", "k">>)),
     Note(Num(<<"2">>), Str(<<"y", "o">>)),
     Note(Missing, Str(<<"h", "i">>)),
     Note(Num(<<"1">>), Missing),
     Junk}

LeadsResponses ==
    {Failed("exc", 0), Failed("timeout", 0), Failed("status", 404),
     Failed("status", 500), Failed("badjson", HttpOk)}
    \cup {Ok(b) : b \in SeqsUpTo({BaseLead, NotedLead}, MaxFetchLeads)}

NotesResponses ==
    {Failed("exc", 0), Failed("timeout", 0), Failed("status", 500),
     Failed("status", 204), Failed("badjson", HttpOk), Failed("notarray", HttpOk)}
    \cup {Ok(b) : b \in SeqsUpTo(NoteItems, MaxNotes)}

InitFetch ==
    /\ tool \in Tools
    /\ kwargs = NoArgs
    /\ environ = GoodEnv
    /\ \E l \in LeadsResponses, n \in NotesResponses :
         backend = [leads |-> l, notes |-> n]

\* data errors: one field of a lead absent, null, empty, of another type, or
\* a timestamp in any of its written forms; a note whose content is no string
TextValues == {Missing, Null, Str(<<>>), Num(<<"5">>)}
TsValues == {TsMissing, TsNull, TsEmpty, TsBad, TsNum,
             Iso(Now, "Z"), Iso(Now, "+0"), Iso(Now, "+1"), Iso(Now, "naive")}

DataLeads ==
    {With(BaseLead, f, val) : f \in TextFields, val \in TextValues}
    \cup {With(BaseLead, f, val) : f \in TsFields, val \in TsValues}

DataNotes ==
    {Ok(<<>>), Ok(<<Note(Num(<<"1">>), Null)>>),
     Ok(<<Note(Num(<<"1">>), Num(<<"5">>))>>)}

InitData ==
    /\ tool \in Tools
    /\ kwargs = NoArgs
    /\ environ = GoodEnv
    /\ \E b \in SeqsUpTo(DataLeads, MaxDataLeads), n \in DataNotes :
         backend = [leads |-> Ok(b), notes |-> n]

\* the day counts: left out, a str of digits, a str that is none, an int
DaysArgs == {ArgDefault, ArgStr(<<" ", "3">>), ArgStr(<<"x">>), ArgInt(1)}
Around(c) == {c - 1, c, c + 1}

\* created_at around every cutoff that days_new can set, and after now
CreatedValues ==
    {TsMissing, TsBad, Iso(Now + 1, "Z")}
    \cup {Iso(t, "Z") : t \in UNION {Around(Cutoff(ConvertDays(a, DefaultDaysNewStr,
                                     DefaultDaysNew))) : a \in DaysArgs}}
    \cup {Iso(Cutoff(DefaultDaysNew) + 1, "+1")}

InitNew ==
    /\ tool = "leads_report"
    /\ \E a \in DaysArgs : kwargs = [NoArgs EXCEPT !.days_new = a]
    /\ environ = GoodEnv
    /\ \E b \in SeqsUpTo({With(BaseLead, "created_at", c) : c \in CreatedValues},
                         MaxNewLeads) :
         backend = [leads |-> Ok(b), notes |-> Ok(<<>>)]

\* updated_at around every cutoff that days_stale can set, with every bucket
UpdatedValues ==
    {TsMissing, TsBad, Iso(LongAgo, "Z")}
    \cup {Iso(t, "Z") : t \in UNION {Around(Cutoff(ConvertDays(a, DefaultDaysStaleStr,
                                     DefaultDaysStale))) : a \in DaysArgs}}
    \cup {Iso(Cutoff(DefaultDaysStale), "+1")}

BucketValues ==
    {Missing, Null, Str(LostJunk), Str(Lower(LostJunk)),
     Str(<<"W", "a", "r", "m">>)}

InitStaleRule ==
    /\ tool = "leads_report"
    /\ \E a \in DaysArgs : kwargs = [NoArgs EXCEPT !.days_stale = a]
    /\ environ = GoodEnv
    /\ \E b \in SeqsUpTo({[BaseLead EXCEPT !.updated_at = u, !.lead_bucket = bk] :
                             u \in UpdatedValues, bk \in BucketValues},
                         MaxRuleLeads) :
         backend = [leads |-> Ok(b), notes |-> Ok(<<>>)]

\* status and priority in every combination, with a site-visit date
StatusValues ==
    {Missing, Null, Str(<<"N", "e", "w">>),
     Str(<<"S", "i", "t", "e", " ", "V", "i", "s", "i", "t", " ", "D", "o", "n", "e">>),
     Str(<<" ", "s", "i", "t", "e", "_", "v", "i", "s", "i", "t", " ">>)}
PriorityValues ==
    {Missing, Null, Str(<<"H", "O", "T">>), Str(<<"h", "o", "t">>),
     Str(<<"h", "o", "t", " ">>)}
SiteVisitDates == {TsNull, TsBad, Iso(Now + TicksPerDay, "Z")}

InitHot ==
    /\ tool = "leads_report"
    /\ kwargs = NoArgs
    /\ environ = GoodEnv
    /\ \E b \in SeqsUpTo({[BaseLead EXCEPT !.status = st, !.priority = pr,
                                           !.site_visit_date = sv] :
                             st \in StatusValues, pr \in PriorityValues,
                             sv \in SiteVisitDates},
                         MaxRuleLeads) :
         backend = [leads |-> Ok(b), notes |-> Ok(<<>>)]

\* project in every form, on leads with and without usable timestamps
ProjectValues == {Missing, Null, Str(<<"P">>), Str(NA)}

ProjectLeads ==
    {[BaseLead EXCEPT !.project = p] : p \in ProjectValues}
    \cup {[BaseLead EXCEPT !.project = p, !.created_at = TsMissing,
                           !.updated_at = TsBad] : p \in ProjectValues}
    \cup {[BaseLead EXCEPT !.project = Str(<<"Q">>), !.created_at = Iso(Now, "Z"),
                           !.updated_at = Iso(LongAgo, "Z")]}

InitProjects ==
    /\ tool = "leads_report"
    /\ kwargs = NoArgs
    /\ environ = GoodEnv
    /\ \E b \in SeqsUpTo(ProjectLeads, MaxProjLeads) :
         backend = [leads |-> Ok(b), notes |-> Ok(<<>>)]

\* long snapshots: a bulk of stale leads of mixed ages, then a free tail
StaleAged(n) ==
    [BaseLead EXCEPT !.updated_at =
        Iso(Cutoff(DefaultDaysStale) - 1 - ((n * 5) % 7) * TicksPerDay, "Z")]

Bulk == [n \in 1..BulkLen |-> StaleAged(n)]

TailLeads ==
    {StaleAged(0), StaleAged(1), BaseLead,
     [StaleAged(2) EXCEPT !.lead_bucket = Str(LostJunk)]}

InitBulk ==
    /\ tool = "leads_report"
    /\ kwargs = NoArgs
    /\ environ = GoodEnv
    /\ \E head \in {<<>>, Bulk}, tail \in SeqsUpTo(TailLeads, MaxTail) :
         backend = [leads |-> Ok(head \o tail), notes |-> Ok(<<>>)]

\* lead_lookup: queries against names and phones in several spellings
Queries ==
    {<<>>, <<"z">>, <<" ", "A", "n", "u", " ">>, <<"a", "n", "u", " ", "r">>,
     <<"9", "8", "7", "6">>, <<"+", "9", "1", " ", "9", "8">>}
NameValues ==
    {Null, Str(<<"A", "n", "u", " ", "R", "a", "o">>), Str(<<"a", "n", "u", "-", "r">>)}
PhoneValues ==
    {Missing, Str(<<"+", "9", "1", " ", "9", "8", "7", "-", "6", "5">>),
     Str(<<"9", "8", "7", "6", "5">>)}

InitLookup ==
    /\ tool = "lead_lookup"
    /\ \E q \in Queries : kwargs = [NoArgs EXCEPT !.query = q]
    /\ environ = GoodEnv
    /\ \E b \in SeqsUpTo({[BaseLead EXCEPT !.lead_name = nm, !.mobile_number = ph] :
                             nm \in NameValues, ph \in PhoneValues},
                         MaxLookupLeads) :
         backend = [leads |-> Ok(b), notes |-> Ok(<<>>)]

Init ==
    /\ \/ InitCredentials
       \/ InitFetch
       \/ InitData
       \/ InitNew
       \/ InitStaleRule
       \/ InitHot
       \/ InitProjects
       \/ InitBulk
       \/ InitLookup
    /\ pc = "start"
    /\ creds = [url |-> Str(<<>>), key |-> Str(<<>>)]
    /\ days = [new |-> 0, stale |-> 0]
    /\ query = <<>>
    /\ requests = <<>>
    /\ leads = <<>>
    /\ lead_notes = EmptyMap
    /\ idx = 0
    /\ by_project = <<>>
    /\ new_leads = <<>>
    /\ stale_leads = <<>>
    /\ site_visit_leads = <<>>
    /\ hot_leads = <<>>
    /\ matches = <<>>
    /\ result = NoResult

Next ==
    \/ ReportStart
    \/ LookupStart
    \/ ReportGetLeads
    \/ LookupGetLeads
    \/ ReportGetNotes
    \/ LookupGetNotes
    \/ ClassifyLead
    \/ RenderReport
    \/ LookupSearch
    \/ LookupRender

Spec == Init /\ [][Next]_vars

(***************************************************************************)
(* What the properties below read off a finished run.                      *)
(***************************************************************************)
Returned(kind) == pc = "done" /\ result.kind = kind

\* the lines of the returned report that are lead entries of a section
IsEntry(l, sec) == l.t = "lead" /\ l.sec = sec
SectionEntries(sec) ==
    LET Test(l) == IsEntry(l, sec)
        picked == SelectSeq(result.body, Test)
    IN  [n \in 1..Len(picked) |-> picked[n].entry]

InSection(sec, i) ==
    \E n \in 1..Len(SectionEntries(sec)) : SectionEntries(sec)[n].lead = i

HasLine(t, sec) ==
    \E n \in 1..Len(result.body) :
        result.body[n].t = t /\ result.body[n].sec = sec

\* the instant an ISO-8601 string with an offset denotes
InstantOf(ts) == ts.wall - (IF ts.off = "+1" THEN 1 ELSE 0)
HasInstant(ts) == ts.k = "iso" /\ ts.off # "naive"

\* the lower-cased status of a lead, "" when it has none
StatusLower(lead) ==
    IF lead.status.k = "str" THEN Lower(lead.status.v) ELSE <<>>

\* C1: in leads_report no lead is in both the SiteVisit and the Hot section:
\* a lead whose lower-cased status contains "site visit" or "site_visit" is
\* absent from Hot, whatever its priority.
C1_HotExcludesSiteVisit ==
    Returned("report") =>
        \A i \in 1..Len(leads) :
            /\ ~(InSection("site_visit", i) /\ InSection("hot", i))
            /\ (\/ Contains(KwSiteVisit, StatusLower(leads[i]))
                \/ Contains(KwSite_Visit, StatusLower(leads[i])))
                    => ~InSection("hot", i)

\* C2: once the leads fetch has succeeded, no data error raises: both tools
\* end by returning a string, and _parse_dt yields a timezone-aware instant
\* or nothing for every timestamp field.
C2_DataErrorsNeverRaise ==
    /\ pc # "raised"
    /\ \A i \in 1..Len(leads) : \A f \in TsFields :
          _parse_dt(leads[i][f]).some => _parse_dt(leads[i][f]).aware

\* the notes fetch failed: no response, a status other than 200, or a body
\* that is not an array of note records all the way through
NotesFetchFailed ==
    \/ backend.notes.k # "ok"
    \/ \E n \in 1..Len(backend.notes.body) : backend.notes.body[n].k # "note"

\* C3: when the leads fetch yields a non-empty array and the notes fetch
\* fails in any way, the notes map is empty; leads_report returns the report
\* with its four section headers and no "Latest note" on any line, and
\* lead_lookup completes with no "Recent Notes" block.
C3_NotesBestEffort ==
    (NotesFetchFailed /\ leads # <<>> /\ pc \notin {"start", "get_leads", "get_notes"})
        => /\ lead_notes = EmptyMap
           /\ (pc \in {"done", "raised"} /\ tool = "leads_report")
                => /\ Returned("report")
                   /\ \A sec \in {"new", "site_visit", "hot", "stale"} :
                         HasLine("header", sec)
                   /\ \A n \in 1..Len(result.body) :
                         result.body[n].t = "lead"
                            => result.body[n].entry.line.latest = <<>>
           /\ (pc \in {"done", "raised"} /\ tool = "lead_lookup")
                => /\ Returned("lookup") \/ Returned("no_match")
                   /\ Returned("lookup")
                        => \A n \in 2..Len(result.body) :
                              result.body[n].recent = <<>>

LeadsFetchFailed == backend.leads.k # "ok"

\* C4: when the leads GET fails (exception, timeout, non-2xx status or a
\* body that does not parse), the tool returns "Error fetching leads:
\* {detail}" and nothing else, having issued that one GET and no other.
C4_LeadsFetchAllOrNothing ==
    (LeadsFetchFailed /\ requests # <<>>)
        => /\ pc = "done"
           /\ result.kind = "fetch_error"
           /\ result.body \in {<<"ConnectError">>, <<"ReadTimeout">>,
                               <<"HTTPStatusError">>, <<"JSONDecodeError">>}
           /\ Len(requests) = 1
           /\ requests[1].table = "leads"

C4_Witness ==
    /\ tool = "lead_lookup"
    /\ backend.leads.k = "timeout"
    /\ Returned("fetch_error")
    /\ Len(requests) = 1

\* norm(s): lower-case s and remove every "+91", space and hyphen
Norm(s) == Remove(Remove(Remove(Lower(s), Plus91), <<" ">>), <<"-">>)
TextOf(x) == IF x.k = "str" THEN x.v ELSE <<>>

\* C5: lead_lookup returns a lead as a match if and only if norm(query) is a
\* substring of norm(lead_name) or of norm(mobile_number).
C5_LookupMatchesNormalized ==
    (tool = "lead_lookup" /\ (pc = "detail" \/ Returned("lookup") \/ Returned("no_match")))
        => \A i \in 1..Len(leads) :
              (\E n \in 1..Len(matches) : matches[n] = i)
                 <=> \/ Contains(Norm(kwargs.query), Norm(TextOf(leads[i].lead_name)))
                     \/ Contains(Norm(kwargs.query), Norm(TextOf(leads[i].mobile_number)))

\* a lead is stale: updated_at denotes an instant before now - days_stale and
\* lead_bucket is not exactly "Lost/Junk"
StaleByRule(lead) ==
    /\ HasInstant(lead.updated_at)
    /\ InstantOf(lead.updated_at) < Now - days.stale * TicksPerDay
    /\ lead.lead_bucket # Str(LostJunk)

StalenessDays(lead) == (Now - InstantOf(lead.updated_at)) \div TicksPerDay

StaleSet == {i \in 1..Len(leads) : StaleByRule(leads[i])}

Min(a, b) == IF a < b THEN a ELSE b

\* the lines of the report after the header of the Stale section
StaleLines ==
    LET at == CHOOSE n \in 1..Len(result.body) :
                 result.body[n].t = "header" /\ result.body[n].sec = "stale"
    IN  SubSeq(result.body, at + 1, Len(result.body))

\* C6: with n stale leads the Stale section prints min(n, 15) entries, most
\* stale first, none of the leads left out being more stale than one printed;
\* "...and N more stale leads" follows exactly when n > 15, with N = n - 15;
\* with n = 0 the body is the "All leads are up to date!" line.
C6_StaleSection ==
    Returned("report") =>
        LET n == Cardinality(StaleSet)
            shown == SectionEntries("stale")
            printed == {shown[k].lead : k \in 1..Len(shown)}
        IN  /\ Len(shown) = Min(n, StaleShown)
            /\ Cardinality(printed) = Len(shown)
            /\ printed \subseteq StaleSet
            /\ \A k \in 1..Len(shown) :
                  shown[k].days_ago = StalenessDays(leads[shown[k].lead])
            /\ \A a, b \in 1..Len(shown) :
                  a < b => shown[a].days_ago >= shown[b].days_ago
            /\ \A i \in StaleSet \ printed : \A k \in 1..Len(shown) :
                  StalenessDays(leads[i]) <= shown[k].days_ago
            /\ StaleLines =
                  Entries("stale", shown)
                  \o (IF n > StaleShown THEN <<[t |-> "more", n |-> n - StaleShown]>>
                      ELSE IF n = 0 THEN <<[t |-> "empty", sec |-> "stale"]>>
                      ELSE <<>>)

\* sixteen stale leads fetched out of order: fifteen printed and one more
C6_Witness ==
    /\ Returned("report")
    /\ Cardinality(StaleSet) = StaleShown + 1
    /\ Len(SectionEntries("stale")) = StaleShown
    /\ result.body[Len(result.body)] = [t |-> "more", n |-> 1]
    /\ \E a, b \in StaleSet :
          a < b /\ StalenessDays(leads[a]) < StalenessDays(leads[b])

\* a lead is new: created_at denotes an instant at or after now - days_new
NewByRule(lead) ==
    /\ HasInstant(lead.created_at)
    /\ InstantOf(lead.created_at) >= Now - days.new * TicksPerDay

\* C7: a lead is in the New section if and only if its created_at is present,
\* parses and is at or after now - days_new (the boundary and the future
\* included, a missing or invalid created_at excluded); the section is in
\* ascending order of age_days.
C7_NewSection ==
    Returned("report") =>
        LET shown == SectionEntries("new")
        IN  /\ \A i \in 1..Len(leads) : InSection("new", i) <=> NewByRule(leads[i])
            /\ \A k \in 1..Len(shown) :
                  shown[k].days_ago =
                     (Now - InstantOf(leads[shown[k].lead].created_at)) \div TicksPerDay
            /\ \A a, b \in 1..Len(shown) :
                  a < b => shown[a].days_ago <= shown[b].days_ago

\* a lead created exactly at the cutoff is listed, after a younger lead that
\* was fetched after it
C7_Witness ==
    /\ Returned("report")
    /\ \E i, j \in 1..Len(leads) :
          /\ i < j
          /\ HasInstant(leads[i].created_at)
          /\ InstantOf(leads[i].created_at) = Now - days.new * TicksPerDay
          /\ InSection("new", i)
          /\ InSection("new", j)
          /\ InstantOf(leads[j].created_at) > Now
          /\ SectionEntries("new")[1].lead = j

\* C8: a lead is in the Stale list if and only if its updated_at is present,
\* parses, is before now - days_stale, and its lead_bucket is not exactly
\* "Lost/Junk"; a "Lost/Junk" lead is never stale.
C8_StaleRule ==
    Returned("report") =>
        \A i \in 1..Len(leads) :
            /\ (\E n \in 1..Len(stale_leads) : stale_leads[n].lead = i)
                  <=> StaleByRule(leads[i])
            /\ leads[i].lead_bucket = Str(LostJunk)
                  => /\ \A n \in 1..Len(stale_leads) : stale_leads[n].lead # i
                     /\ ~InSection("stale", i)

\* a "Lost/Junk" lead last updated long ago is returned outside Stale
C8_Witness ==
    /\ Returned("report")
    /\ \E i \in 1..Len(leads) :
          /\ leads[i].lead_bucket = Str(LostJunk)
          /\ HasInstant(leads[i].updated_at)
          /\ InstantOf(leads[i].updated_at) < Now - days.stale * TicksPerDay
          /\ ~InSection("stale", i)
    /\ HasLine("empty", "stale")

\* a credential after resolution: the parameter when one is supplied, the
\* environment's otherwise
Resolved(param, env) ==
    IF Truthy(param) THEN param ELSE IF env.k = "missing" THEN Str(<<>>) ELSE env

\* C9: in both tools each credential comes from the parameter when one is
\* supplied and from the environment otherwise; the tool returns the
\* missing-credentials string, with no remote call, exactly when one is
\* absent after that.
C9_CredentialsResolution ==
    pc # "start" =>
        LET url == Resolved(kwargs.supabase_url, environ.SUPABASE_URL)
            key == Resolved(kwargs.supabase_key, environ.SUPABASE_KEY)
            absent == ~Truthy(url) \/ ~Truthy(key)
        IN  /\ (result = MissingCredentials) <=> absent
            /\ absent => (requests = <<>> /\ pc = "done")
            /\ ~absent => creds = [url |-> url, key |-> key]

\* the project a lead counts under
ProjectOf(lead) == IF lead.project.k = "missing" THEN Str(NA) ELSE lead.project

RECURSIVE SumCounts(_)
SumCounts(parts) ==
    IF parts = <<>> THEN 0 ELSE Head(parts).c + SumCounts(Tail(parts))

\* C10: the report's total is the number of leads fetched, each project is
\* listed once with the number of leads having it (a lead without one under
\* the placeholder), so the counts add up to the total whatever sections the
\* leads are in; the breakdown is in non-increasing order of count.
C10_ProjectCounts ==
    Returned("report") =>
        LET parts == result.body[4].parts
        IN  /\ result.body[3] = [t |-> "total", n |-> Len(leads)]
            /\ result.body[4].t = "by_project"
            /\ {parts[n].p : n \in 1..Len(parts)}
                  = {ProjectOf(leads[i]) : i \in 1..Len(leads)}
            /\ \A n \in 1..Len(parts) :
                  parts[n].c =
                     Cardinality({i \in 1..Len(leads) : ProjectOf(leads[i]) = parts[n].p})
            /\ \A a, b \in 1..Len(parts) : a # b => parts[a].p # parts[b].p
            /\ SumCounts(parts) = Len(leads)
            /\ \A a, b \in 1..Len(parts) : a < b => parts[a].c >= parts[b].c

\* the project seen first has fewer leads than a later one, one lead has no
\* project and one has no usable timestamp
C10_Witness ==
    /\ Returned("report")
    /\ Len(by_project) >= 2
    /\ by_project[1].c < by_project[2].c
    /\ result.body[4].parts[1].c > result.body[4].parts[2].c
    /\ \E i \in 1..Len(leads) : leads[i].project.k = "missing"
    /\ \E i \in 1..Len(leads) :
          leads[i].created_at.k = "missing" /\ leads[i].updated_at.k = "bad"

=============================================================================
